---------------------------- MODULE Spec2Model ----------------------------
(***************************************************************************)
(* Model of src/main.py: the HackerOne program analyzer.                   *)
(*                                                                         *)
(* main() loads the platform credentials, lists the user's programs, runs  *)
(* the interactive selection loop, loads the LLM credentials and runs the  *)
(* four-stage LangGraph pipeline fetch -> analyze -> extract -> summarize. *)
(*                                                                         *)
(* Text that the program reads character by character (console input, the   *)
(* credential files) is a sequence of one-character strings.  Text that the *)
(* program only builds from templates (messages, program content) is a      *)
(* sequence of string tokens.                                               *)
(***************************************************************************)
EXTENDS Integers, Sequences, FiniteSets, TLC

VARIABLES
    pc,                \* position of main()
    auth,              \* main: auth
    programs,          \* main: programs
    listings,          \* number of times the numbered program list was printed
    prompts,           \* number of input() calls made
    lastInput,         \* the stripped text returned by the last input() call
    lastOutput,        \* the last diagnostic the selection loop printed
    query,             \* main: query
    hack_matches,      \* main: hack_matches
    search_result,     \* main: search_result
    selected_program,  \* main: selected_program
    http,              \* number of platform HTTP calls made, per endpoint
    httpErrors,        \* number of those calls that raised RequestException
    abortReason,       \* the exception that ended the run, if any
    llm,               \* main: llm
    messages,          \* AgentState.messages (the graph's channel)
    program_handle,    \* AgentState.program_handle
    program_name,      \* AgentState.program_name
    program_content,   \* AgentState.program_content
    program,           \* fetch_hackerone_content: program
    findings,          \* AgentState.findings
    summary,           \* AgentState.summary
    reportFile,        \* content of hackerone_summary.md
    reportWrites,      \* number of times hackerone_summary.md was written
    llmCalls,          \* the llm.invoke calls made so far, in order
    stagesRun,         \* the graph nodes that have completed, in order
    aliased,           \* whether a node's state shares the channel's list object
    credFile,          \* credential loader check: the .hackerone file
    credResult,        \* credential loader check: result of get_hackerone_auth
    feedOutcome        \* hacktivity search check: what the request produced

vars == <<pc, auth, programs, listings, prompts, lastInput, lastOutput, query,
          hack_matches, search_result, selected_program, http, httpErrors,
          abortReason, llm, messages,
          program_handle, program_name, program_content, program, findings,
          summary, reportFile, reportWrites, llmCalls, stagesRun, aliased,
          credFile, credResult, feedOutcome>>

selectorVars == <<programs, listings, prompts, lastInput, lastOutput, query,
                  hack_matches, search_result, selected_program>>

pipelineVars == <<llm, messages, program_handle, program_name, program_content,
                  program, findings, summary, reportFile, reportWrites, llmCalls,
                  stagesRun>>

credVars == <<credFile, credResult, feedOutcome>>

-----------------------------------------------------------------------------
(* Bounds *)

MaxPrograms == 2     \* longest program list the platform returns
MaxFeed     == 2     \* longest hacktivity feed the platform returns
MaxPrompts  == 4     \* input() calls explored in one run
MaxCredLen  == 4     \* longest .hackerone content explored
MaxItems    == 3     \* longest hacktivity feed explored by the search check

-----------------------------------------------------------------------------
(* Values *)

\* Path.is_file() is false / the file's raw text
NoFile     == [is_file |-> FALSE]
File(text) == [is_file |-> TRUE, text |-> text]

\* os.getenv() returned None / the variable's value
NoEnv      == [is_set |-> FALSE]
Env(text)  == [is_set |-> TRUE, text |-> text]

\* get_hackerone_auth() returned None (a credential pair is a 2-tuple)
NoAuth == <<>>

\* selected_program before the loop has assigned it
Unselected == [selected |-> FALSE]

\* a Python str and an AIMessage / HumanMessage, both carrying token text
Str(text)          == [type |-> "str", content |-> text]
AIMessage(text)    == [type |-> "ai", content |-> text]
HumanMessage(text) == [type |-> "human", content |-> text]

Handles == {"h1", "h2"}

\* the display name the platform gives the program with handle h
NameOf(h) == IF h = "h1" THEN "A" ELSE "B"

\* a program record as the selector reads it: prog["attributes"]["handle"/"name"]
Program == {[handle |-> h, name |-> NameOf(h)] : h \in Handles}

RECURSIVE SeqsUpTo(_, _)
SeqsUpTo(S, n) ==
    IF n = 0 THEN {<<>>}
    ELSE LET shorter == SeqsUpTo(S, n - 1)
         IN  shorter \cup {Append(s, x) : s \in {t \in shorter : Len(t) = n - 1}, x \in S}

Range(s) == {s[i] : i \in 1..Len(s)}

-----------------------------------------------------------------------------
(* Text primitives: str.strip, "in", str.split(":", 1), int(), str.isdigit  *)

Whitespace == {" "}
AsciiDigits == {"0", "1", "2", "3", "4", "5", "6", "7", "8", "9"}
\* characters for which str.isdigit() is true but which int() rejects
OtherDigits == {"^2"}

DigitValue(c) ==
    CASE c = "0" -> 0 [] c = "1" -> 1 [] c = "2" -> 2 [] c = "3" -> 3
      [] c = "4" -> 4 [] c = "5" -> 5 [] c = "6" -> 6 [] c = "7" -> 7
      [] c = "8" -> 8 [] c = "9" -> 9

DigitChar(n) ==
    CASE n = 0 -> "0" [] n = 1 -> "1" [] n = 2 -> "2" [] n = 3 -> "3"
      [] n = 4 -> "4" [] n = 5 -> "5" [] n = 6 -> "6" [] n = 7 -> "7"
      [] n = 8 -> "8" [] n = 9 -> "9"

RECURSIVE LStrip(_)
LStrip(s) == IF s # <<>> /\ Head(s) \in Whitespace THEN LStrip(Tail(s)) ELSE s

RECURSIVE RStrip(_)
RStrip(s) ==
    IF s # <<>> /\ s[Len(s)] \in Whitespace
    THEN RStrip(SubSeq(s, 1, Len(s) - 1)) ELSE s

\* Strip with the .strip() call left out
NoStrip(s) == s

\* str.strip()
Strip(s) == RStrip(LStrip(s))

\* position of the first occurrence of character c in s, 0 if there is none
FirstIndex(s, c) ==
    IF \E i \in 1..Len(s) : s[i] = c
    THEN CHOOSE i \in 1..Len(s) : s[i] = c /\ \A j \in 1..(i - 1) : s[j] # c
    ELSE 0

\* str.isdigit(): non-empty and every character is a digit character
IsDigit(s) == s # <<>> /\ \A i \in 1..Len(s) : s[i] \in AsciiDigits \cup OtherDigits

\* int(s) succeeds: optional sign followed by one or more ASCII digits
IsIntLiteral(s) ==
    LET body == IF s # <<>> /\ Head(s) \in {"-", "+"} THEN Tail(s) ELSE s
    IN  body # <<>> /\ \A i \in 1..Len(body) : body[i] \in AsciiDigits

RECURSIVE DigitsValue(_)
DigitsValue(s) ==
    IF s = <<>> THEN 0
    ELSE 10 * DigitsValue(SubSeq(s, 1, Len(s) - 1)) + DigitValue(s[Len(s)])

\* int(s), for s with IsIntLiteral(s)
IntValue(s) ==
    IF Head(s) = "-" THEN 0 - DigitsValue(Tail(s))
    ELSE IF Head(s) = "+" THEN DigitsValue(Tail(s))
    ELSE DigitsValue(s)

-----------------------------------------------------------------------------
(* Credential Loader *)

\* the fixed placeholder principal "api"
ApiPrincipal == <<"a", "p", "i">>

\* get_hackerone_auth(): file is NoFile or the raw content of .hackerone
get_hackerone_auth(file) ==
    IF file.is_file
    THEN LET content == Strip(file.text)
             colon   == FirstIndex(content, ":")
         IN  IF colon # 0
             THEN <<SubSeq(content, 1, colon - 1),
                    SubSeq(content, colon + 1, Len(content))>>
             ELSE <<ApiPrincipal, content>>
    ELSE NoAuth

\* get_llm(): the api_key it ends up with (<<>> is falsy: None or "");
\* env is the value of OPENROUTER_API_KEY, file is .openrouter_api_key
get_llm_key(env, file) ==
    LET fromEnv == IF env.is_set THEN env.text ELSE <<>>
    IN  IF fromEnv # <<>> THEN fromEnv
        ELSE IF file.is_file THEN Strip(file.text)
        ELSE <<>>

-----------------------------------------------------------------------------
(* Program Directory Client *)

\* what GET /v1/hackers/programs can produce: a request failure, or a JSON
\* body whose "data" is a list of programs (an absent "data" reads as [])
ListOutcomes ==
    {[kind |-> "fail"]} \cup
    {[kind |-> "ok", data |-> l] : l \in SeqsUpTo(Program, MaxPrograms)}

\* fetch_hackerone_programs(): the list returned to main
fetch_hackerone_programs(outcome) ==
    IF outcome.kind = "ok" THEN outcome.data ELSE <<>>

\* the attribute maps a program detail body can carry
NoAttrs == [k \in {} |-> "x"]
DetailAttrs == {NoAttrs, [policy |-> "P"], [name |-> "A", policy |-> "P"]}

\* what GET /v1/hackers/programs/{handle} can produce: a request failure, an
\* empty JSON object, a JSON value that is not an object, an object with
\* top-level "attributes", or an object with a "data" member
DetailOutcomes ==
    {[kind |-> "fail"], [kind |-> "empty"], [kind |-> "nondict"]} \cup
    {[kind |-> "flat", attributes |-> a] : a \in DetailAttrs} \cup
    {[kind |-> "wrapped", data |-> p] : p \in Program}

NoneResponse == [kind |-> "none"]

\* fetch_program_details without the except branch's "return None"
FetchDetailsNoDegrade(outcome) == outcome

\* fetch_program_details(): response.json(), or None on a request failure
fetch_program_details(outcome) ==
    IF outcome.kind = "fail" THEN NoneResponse ELSE outcome

\* Python truth value of a fetch_program_details result
Truthy(response) == response.kind \notin {"none", "empty"}

\* an activity item's program handle may be absent
NoHandle == ""
FeedItem == {[handle |-> h, name |-> NameOf(h)] : h \in Handles \cup {NoHandle}}

\* what GET /v1/hackers/hacktivity can produce
SearchOutcomes ==
    {[kind |-> "fail"]} \cup
    {[kind |-> "ok", data |-> l] : l \in SeqsUpTo(FeedItem, MaxFeed)}

\* UniquePrograms without the "handle not in seen" test
RECURSIVE UniqueProgramsNoSeen(_, _, _)
UniqueProgramsNoSeen(items, seen, acc) ==
    IF items = <<>> THEN acc
    ELSE LET handle == Head(items).handle
             name   == Head(items).name
         IN  IF handle # NoHandle
             THEN UniqueProgramsNoSeen(Tail(items), seen \cup {handle},
                                       Append(acc, [handle |-> handle, name |-> name]))
             ELSE UniqueProgramsNoSeen(Tail(items), seen, acc)

\* the loop body of search_programs_via_hacktivity over the feed items
RECURSIVE UniquePrograms(_, _, _)
UniquePrograms(items, seen, acc) ==
    IF items = <<>> THEN acc
    ELSE LET handle == Head(items).handle
             name   == Head(items).name
         IN  IF handle # NoHandle /\ handle \notin seen
             THEN UniquePrograms(Tail(items), seen \cup {handle},
                                 Append(acc, [handle |-> handle, name |-> name]))
             ELSE UniquePrograms(Tail(items), seen, acc)

\* search_programs_via_hacktivity(): the matches returned to main
search_programs_via_hacktivity(outcome) ==
    IF outcome.kind = "ok" THEN UniquePrograms(outcome.data, {}, <<>>) ELSE <<>>

-----------------------------------------------------------------------------
(* Program Selector: the while True loop of main *)

\* console lines typed at the numeric prompts (before .strip())
ChoiceInputs ==
    {<<DigitChar(n)>> : n \in 0..(MaxPrograms + 2)} \cup
    {<<>>, <<"a">>, <<"-", "1">>, <<"^2">>, <<" ", "1">>}

\* console lines typed at the search-term prompt (before .strip())
QueryInputs == {<<>>, <<" ">>, <<"h">>, <<"z", " ">>}

\* MainChoice with the lower bound tested by "<" instead of "<="
MainChoiceStrict(choice, n) ==
    IF ~IsIntLiteral(choice) THEN "invalid"
    ELSE LET idx == IntValue(choice) - 1
         IN  IF 0 < idx /\ idx < n THEN "select"
             ELSE IF idx = n THEN "search"
             ELSE "bounds"

\* MainChoice with the search option tested by ">=" instead of "=="
MainChoiceSearchAbove(choice, n) ==
    IF ~IsIntLiteral(choice) THEN "invalid"
    ELSE LET idx == IntValue(choice) - 1
         IN  IF 0 <= idx /\ idx < n THEN "select"
             ELSE IF idx >= n THEN "search"
             ELSE "bounds"

\* the branch the main prompt takes on the stripped input, for an n-program list
MainChoice(choice, n) ==
    IF ~IsIntLiteral(choice) THEN "invalid"            \* int() raises ValueError
    ELSE LET idx == IntValue(choice) - 1
         IN  IF 0 <= idx /\ idx < n THEN "select"
             ELSE IF idx = n THEN "search"
             ELSE "bounds"

\* SearchChoice with the handle lookup made for an empty response only
SearchChoiceEmptyOnly(sel, m) ==
    IF sel = <<>> THEN "lookup"
    ELSE IF IsDigit(sel) /\ IsIntLiteral(sel)
              /\ 0 <= IntValue(sel) - 1 /\ IntValue(sel) - 1 < m THEN "select"
    ELSE "invalid"

\* the branch the search prompt takes on the stripped input, for m matches
SearchChoice(sel, m) ==
    IF IsDigit(sel)
    THEN IF ~IsIntLiteral(sel) THEN "invalid"          \* int() raises ValueError
         ELSE LET sel_idx == IntValue(sel) - 1
              IN  IF 0 <= sel_idx /\ sel_idx < m THEN "select" ELSE "lookup"
    ELSE "lookup"

\* the direct handle lookup resolves: search_result and "data" in search_result
Found(result) == Truthy(result) /\ result.kind = "wrapped"

\* NotFoundNext asking for another search term instead
NotFoundAsksAgain == "AwaitingQuery"

\* where the loop goes when the handle lookup finds nothing: continue
NotFoundNext == "AwaitingChoice"

Bump(counter, endpoint) == [counter EXCEPT ![endpoint] = @ + 1]

\* the except branch of a directory call ran: count the failed request
BumpIfFailed(counter, endpoint, outcome) ==
    IF outcome.kind = "fail" THEN Bump(counter, endpoint) ELSE counter

\* LoadAuth without the "if not auth: raise"
LoadAuthUnchecked ==
    /\ pc = "start"
    /\ \E file \in {NoFile, File(<<>>), File(<<"u", ":", "t">>)} :
         auth' = get_hackerone_auth(file)
    /\ pc' = "list"
    /\ UNCHANGED <<selectorVars, pipelineVars, http, httpErrors, abortReason,
                   aliased, credVars>>

\* main, lines 247-251: load the platform credentials or raise
LoadAuth ==
    /\ pc = "start"
    /\ \E file \in {NoFile, File(<<>>), File(<<"u", ":", "t">>)} :
         /\ auth' = get_hackerone_auth(file)
         /\ IF auth' = NoAuth
            THEN pc' = "aborted" /\ abortReason' = "no_platform_credentials"
            ELSE pc' = "list" /\ UNCHANGED abortReason
    /\ UNCHANGED <<selectorVars, pipelineVars, http, httpErrors, aliased, credVars>>

\* ListPrograms without the "if not programs: return"
ListProgramsNoEmptyCheck ==
    /\ pc = "list"
    /\ \E outcome \in ListOutcomes :
         /\ programs' = fetch_hackerone_programs(outcome)
         /\ http' = Bump(http, "list")
         /\ httpErrors' = BumpIfFailed(httpErrors, "list", outcome)
    /\ pc' = "AwaitingChoice"
    /\ listings' = listings + 1
    /\ UNCHANGED <<auth, prompts, lastInput, lastOutput, query, hack_matches,
                   search_result, selected_program, abortReason, pipelineVars,
                   aliased, credVars>>

\* main, lines 253-267: fetch the programs, return if none, else print the list
ListPrograms ==
    /\ pc = "list"
    /\ \E outcome \in ListOutcomes :
         /\ programs' = fetch_hackerone_programs(outcome)
         /\ http' = Bump(http, "list")
         /\ httpErrors' = BumpIfFailed(httpErrors, "list", outcome)
         /\ IF programs' = <<>>
            THEN pc' = "returned" /\ UNCHANGED listings
            ELSE pc' = "AwaitingChoice" /\ listings' = listings + 1
    /\ UNCHANGED <<auth, prompts, lastInput, lastOutput, query, hack_matches,
                   search_result, selected_program, abortReason, pipelineVars,
                   aliased, credVars>>

\* main, lines 306-310 and 340-343: the main prompt
Choose ==
    /\ pc = "AwaitingChoice"
    /\ prompts < MaxPrompts
    /\ \E raw \in ChoiceInputs :
         LET choice == Strip(raw)
             branch == MainChoice(choice, Len(programs))
         IN  /\ lastInput' = choice
             /\ prompts' = prompts + 1
             /\ CASE branch = "select" ->
                       /\ selected_program' = programs[(IntValue(choice) - 1) + 1]
                       /\ pc' = "Resolved"
                       /\ lastOutput' = ""
                  [] branch = "search" ->
                       /\ pc' = "AwaitingQuery"
                       /\ lastOutput' = ""
                       /\ UNCHANGED selected_program
                  [] branch = "bounds" ->
                       /\ pc' = "AwaitingChoice"
                       /\ lastOutput' = "Please enter a number between"
                       /\ UNCHANGED selected_program
                  [] branch = "invalid" ->
                       /\ pc' = "AwaitingChoice"
                       /\ lastOutput' = "Invalid input"
                       /\ UNCHANGED selected_program
    /\ UNCHANGED <<auth, programs, listings, query, hack_matches, search_result,
                   http, httpErrors, abortReason, pipelineVars, aliased, credVars>>

\* main, lines 313-322: the search-term prompt and the hacktivity search
EnterQuery ==
    /\ pc = "AwaitingQuery"
    /\ prompts < MaxPrompts
    /\ \E raw \in QueryInputs, outcome \in SearchOutcomes :
         /\ query' = Strip(raw)
         /\ lastInput' = query'
         /\ prompts' = prompts + 1
         /\ IF query' = <<>>
            THEN /\ lastOutput' = "Search term cannot be empty"
                 /\ pc' = "AwaitingChoice"
                 /\ UNCHANGED <<hack_matches, http, httpErrors>>
            ELSE /\ hack_matches' = search_programs_via_hacktivity(outcome)
                 /\ http' = Bump(http, "search")
                 /\ httpErrors' = BumpIfFailed(httpErrors, "search", outcome)
                 /\ lastOutput' = "Programs found via hacktivity search"
                 /\ pc' = "AwaitingSearchChoice"
    /\ UNCHANGED <<auth, programs, listings, search_result, selected_program,
                   abortReason, pipelineVars, aliased, credVars>>

\* main, lines 323-339 and 342-343: the match prompt and the handle lookup
ChooseMatch ==
    /\ pc = "AwaitingSearchChoice"
    /\ prompts < MaxPrompts
    /\ \E raw \in ChoiceInputs, outcome \in DetailOutcomes :
         LET sel    == Strip(raw)
             branch == SearchChoice(sel, Len(hack_matches))
         IN  /\ lastInput' = sel
             /\ prompts' = prompts + 1
             /\ CASE branch = "select" ->
                       /\ selected_program' = hack_matches[(IntValue(sel) - 1) + 1]
                       /\ pc' = "Resolved"
                       /\ lastOutput' = "Selected program from hacktivity results"
                       /\ UNCHANGED <<search_result, http, httpErrors>>
                  [] branch = "invalid" ->
                       /\ pc' = "AwaitingChoice"
                       /\ lastOutput' = "Invalid input"
                       /\ UNCHANGED <<search_result, selected_program, http, httpErrors>>
                  [] branch = "lookup" ->
                       /\ search_result' = fetch_program_details(outcome)
                       /\ http' = Bump(http, "detail")
                       /\ httpErrors' = BumpIfFailed(httpErrors, "detail", outcome)
                       /\ IF Found(search_result')
                          THEN /\ selected_program' = search_result'.data
                               /\ pc' = "Resolved"
                               /\ lastOutput' = "Searching for program by handle"
                          ELSE /\ pc' = NotFoundNext
                               /\ lastOutput' = "not found or you don't have access"
                               /\ UNCHANGED selected_program
    /\ UNCHANGED <<auth, programs, listings, query, hack_matches, abortReason,
                   pipelineVars, aliased, credVars>>

-----------------------------------------------------------------------------
(* LLM client, Content Formatter and the graph channels *)

\* what OPENROUTER_API_KEY and .openrouter_api_key can hold
Envs     == {NoEnv, Env(<<>>), Env(<<"k">>)}
KeyFiles == {NoFile, File(<<" ">>), File(<<"k", " ">>)}

\* texts the model can answer with
LLMTexts == {<<"r1">>, <<"r2">>}

\* what llm.invoke(prompt) can produce: an exception or an AIMessage
LLMOutcomes == {[ok |-> FALSE]} \cup {[ok |-> TRUE, text |-> t] : t \in LLMTexts}

\* dict.get(key, default)
Get(attrs, key, default) == IF key \in DOMAIN attrs THEN attrs[key] ELSE default

\* the f-string of fetch_hackerone_content, lines 108-117
Format(attrs, handle) ==
    <<"Program: ", Get(attrs, "name", handle),
      "Handle: ", handle,
      "Policy: ", Get(attrs, "policy", "N/A"),
      "Submission State: ", Get(attrs, "submission_state", "N/A"),
      "State: ", Get(attrs, "state", "N/A"),
      "Offers Bounties: ", Get(attrs, "offers_bounties", "False"),
      "Open Scope: ", Get(attrs, "open_scope", "False"),
      "Currency: ", Get(attrs, "currency", "N/A")>>

\* error_msg of fetch_hackerone_content, line 124, for the exception text e
ErrorMsg(e) == <<"Error fetching program: ">> \o e

\* ErrorContent without the "Error: " prefix
ErrorContentNoPrefix(error_msg) == error_msg

\* the content stored on a fetch failure, line 126
ErrorContent(error_msg) == <<"Error: ">> \o error_msg

\* the node appended message to state["messages"] and returned the state; the
\* channel's reducer operator.add then adds the returned list to the channel.
\* When the node's list is the channel's own list object the append has
\* already changed the channel's value.
ChannelAdd(channel, message, shared) ==
    LET returned == Append(channel, message)
    IN  IF shared THEN returned \o returned ELSE channel \o returned

\* main, lines 345-368: read the selection, get_llm(), build the graph and
\* write the initial state to the channels
StartPipeline ==
    /\ pc = "Resolved"
    /\ \E env \in Envs, file \in KeyFiles, shared \in BOOLEAN :
         LET api_key == get_llm_key(env, file)
         IN  IF api_key = <<>>
             THEN /\ pc' = "aborted"
                  /\ abortReason' = "no_llm_credentials"
                  /\ UNCHANGED <<pipelineVars, aliased>>
             ELSE /\ llm' = api_key
                  /\ aliased' = shared
                  /\ program_handle' = selected_program.handle
                  /\ program_name' = selected_program.name
                  /\ messages' = <<HumanMessage(<<"Analyze HackerOne program: ",
                                                   selected_program.name>>)>>
                  /\ program_content' = <<>>
                  /\ findings' = <<>>
                  /\ summary' = Str(<<>>)
                  /\ pc' = "fetch"
                  /\ UNCHANGED <<program, reportFile, reportWrites, llmCalls,
                                 stagesRun, abortReason>>
    /\ UNCHANGED <<auth, selectorVars, http, httpErrors, credVars>>

\* what fetch_hackerone_content does with the lookup result: the content it
\* stores and the message it appends
FetchResult(prog, handle) ==
    IF Truthy(prog) /\ prog.kind # "nondict"
    THEN LET attrs == IF prog.kind = "flat" THEN prog.attributes ELSE NoAttrs
         IN  [content |-> Format(attrs, handle),
              message |-> AIMessage(<<"Fetched HackerOne program: ", handle>>)]
    ELSE LET e == IF Truthy(prog)
                  THEN <<"object has no attribute 'get'">>
                  ELSE <<"Could not fetch program details for ", handle>>
             error_msg == ErrorMsg(e)
         IN  [content |-> ErrorContent(error_msg),
              message |-> AIMessage(error_msg)]

\* node "fetch": fetch_hackerone_content
Fetch ==
    /\ pc = "fetch"
    /\ \E outcome \in DetailOutcomes :
         /\ program' = fetch_program_details(outcome)
         /\ httpErrors' = BumpIfFailed(httpErrors, "detail", outcome)
         /\ LET result == FetchResult(program', program_handle)
            IN  /\ program_content' = result.content
                /\ messages' = ChannelAdd(messages, result.message, aliased)
    /\ http' = Bump(http, "detail")
    /\ stagesRun' = Append(stagesRun, "fetch")
    /\ pc' = "analyze"
    /\ UNCHANGED <<auth, selectorVars, abortReason, llm, program_handle,
                   program_name, findings, summary, reportFile, reportWrites,
                   llmCalls, aliased, credVars>>

\* LLMCall with the extract prompt embedding the handle, not the content
LLMCallExtractHandle(stage, input, outcome) ==
    [stage |-> stage,
     input |-> IF stage = "extract" THEN <<program_handle>> ELSE input,
     ok |-> outcome.ok,
     text |-> IF outcome.ok THEN outcome.text ELSE <<>>]

\* the record kept of one llm.invoke call: the node, what the prompt embeds
\* and what came back
LLMCall(stage, input, outcome) ==
    [stage |-> stage, input |-> input, ok |-> outcome.ok,
     text |-> IF outcome.ok THEN outcome.text ELSE <<>>]

\* AppendFinding replacing the list instead of appending to it
ReplaceFindings(fs, response) == <<response>>

\* state["findings"].append(response)
AppendFinding(fs, response) == Append(fs, response)

\* AfterLLMError with the node run again after a failed call
RetryAfterLLMError(stage) == stage

\* llm.invoke raised inside the node for stage: nothing catches it
AfterLLMError(stage) == "aborted"

\* the two analysis nodes, analyze_target and search_vulnerabilities
AnalysisStage(stage, next) ==
    /\ pc = stage
    /\ \E outcome \in LLMOutcomes :
         /\ llmCalls' = Append(llmCalls, LLMCall(stage, program_content, outcome))
         /\ IF outcome.ok
            THEN LET response == AIMessage(outcome.text)
                 IN  /\ messages' = ChannelAdd(messages, response, aliased)
                     /\ findings' = AppendFinding(findings, response)
                     /\ stagesRun' = Append(stagesRun, stage)
                     /\ pc' = next
                     /\ UNCHANGED abortReason
            ELSE /\ pc' = AfterLLMError(stage)
                 /\ abortReason' = "llm_error"
                 /\ UNCHANGED <<messages, findings, stagesRun>>
    /\ UNCHANGED <<auth, selectorVars, http, httpErrors, llm, program_handle,
                   program_name, program_content, program, summary, reportFile, reportWrites,
                   aliased, credVars>>

\* node "analyze": analyze_target
Analyze == AnalysisStage("analyze", "extract")

\* node "extract": search_vulnerabilities
Extract == AnalysisStage("extract", "summarize")

\* "\n".join(str(f) for f in findings): the texts of the findings, in order
FindingsText(fs) == [i \in 1..Len(fs) |-> fs[i].content]

\* save_summary_to_file writing str(summary) instead of summary.content
SaveMessageRepr(message) == File(<<"content=">> \o message.content)

\* save_summary_to_file: the text written to hackerone_summary.md
save_summary_to_file(message) == File(message.content)

\* node "summarize": generate_report, then the closing prints of main
Summarize ==
    /\ pc = "summarize"
    /\ \E outcome \in LLMOutcomes :
         /\ llmCalls' = Append(llmCalls, LLMCall("summarize", FindingsText(findings),
                                                  outcome))
         /\ IF outcome.ok
            THEN LET response == AIMessage(outcome.text)
                 IN  /\ messages' = ChannelAdd(messages, response, aliased)
                     /\ summary' = response
                     /\ reportFile' = save_summary_to_file(response)
                     /\ reportWrites' = reportWrites + 1
                     /\ stagesRun' = Append(stagesRun, "summarize")
                     /\ pc' = "done"
                     /\ UNCHANGED abortReason
            ELSE /\ pc' = AfterLLMError("summarize")
                 /\ abortReason' = "llm_error"
                 /\ UNCHANGED <<messages, summary, reportFile, reportWrites,
                                stagesRun>>
    /\ UNCHANGED <<auth, selectorVars, http, httpErrors, llm, program_handle,
                   program_name, program_content, program, findings, aliased, credVars>>

-----------------------------------------------------------------------------
(* The run of main *)

Init ==
    /\ pc = "start"
    /\ auth = NoAuth
    /\ programs = <<>>
    /\ listings = 0
    /\ prompts = 0
    /\ lastInput = <<>>
    /\ lastOutput = ""
    /\ query = <<>>
    /\ hack_matches = <<>>
    /\ search_result = NoneResponse
    /\ selected_program = Unselected
    /\ http = [list |-> 0, detail |-> 0, search |-> 0]
    /\ httpErrors = [list |-> 0, detail |-> 0, search |-> 0]
    /\ abortReason = ""
    /\ llm = <<>>
    /\ messages = <<>>
    /\ program_handle = ""
    /\ program_name = ""
    /\ program_content = <<>>
    /\ program = NoneResponse
    /\ findings = <<>>
    /\ summary = Str(<<>>)
    /\ reportFile = NoFile
    /\ reportWrites = 0
    /\ llmCalls = <<>>
    /\ stagesRun = <<>>
    /\ aliased = FALSE
    /\ credFile = NoFile
    /\ credResult = NoAuth
    /\ feedOutcome = [kind |-> "fail"]

Next ==
    \/ LoadAuth
    \/ ListPrograms
    \/ Choose
    \/ EnterQuery
    \/ ChooseMatch
    \/ StartPipeline
    \/ Fetch
    \/ Analyze
    \/ Extract
    \/ Summarize

Spec == Init /\ [][Next]_vars

-----------------------------------------------------------------------------
(* The credential loader on its own, over every short .hackerone content *)

CredChars == {"a", ":", " "}

CredFiles == {NoFile} \cup {File(text) : text \in SeqsUpTo(CredChars, MaxCredLen)}

InitCred ==
    /\ pc = "cred"
    /\ credFile \in CredFiles
    /\ credResult = NoAuth
    /\ feedOutcome = [kind |-> "fail"]
    /\ auth = NoAuth
    /\ programs = <<>>
    /\ listings = 0
    /\ prompts = 0
    /\ lastInput = <<>>
    /\ lastOutput = ""
    /\ query = <<>>
    /\ hack_matches = <<>>
    /\ search_result = NoneResponse
    /\ selected_program = Unselected
    /\ http = [list |-> 0, detail |-> 0, search |-> 0]
    /\ httpErrors = [list |-> 0, detail |-> 0, search |-> 0]
    /\ abortReason = ""
    /\ llm = <<>>
    /\ messages = <<>>
    /\ program_handle = ""
    /\ program_name = ""
    /\ program_content = <<>>
    /\ program = NoneResponse
    /\ findings = <<>>
    /\ summary = Str(<<>>)
    /\ reportFile = NoFile
    /\ reportWrites = 0
    /\ llmCalls = <<>>
    /\ stagesRun = <<>>
    /\ aliased = FALSE

\* main, line 248: auth = get_hackerone_auth()
ReadCredentials ==
    /\ pc = "cred"
    /\ credResult' = get_hackerone_auth(credFile)
    /\ pc' = "cred_done"
    /\ UNCHANGED <<auth, selectorVars, pipelineVars, http, httpErrors,
                   abortReason, aliased, credFile, feedOutcome>>

NextCred == ReadCredentials

SpecCred == InitCred /\ [][NextCred]_vars

-----------------------------------------------------------------------------
(* The hacktivity search on its own, over every short feed *)

\* an activity item: its program's handle (possibly absent) and name, and
\* the rest of the item, which the search does not copy
ActivityItem ==
    [handle : Handles \cup {NoHandle}, name : {"A", "B"}, id : {"r"}]

FeedOutcomes ==
    {[kind |-> "fail"]} \cup
    {[kind |-> "ok", data |-> l] : l \in SeqsUpTo(ActivityItem, MaxItems)}

InitSearch ==
    /\ pc = "search"
    /\ feedOutcome \in FeedOutcomes
    /\ credFile = NoFile
    /\ credResult = NoAuth
    /\ auth = NoAuth
    /\ programs = <<>>
    /\ listings = 0
    /\ prompts = 0
    /\ lastInput = <<>>
    /\ lastOutput = ""
    /\ query = <<>>
    /\ hack_matches = <<>>
    /\ search_result = NoneResponse
    /\ selected_program = Unselected
    /\ http = [list |-> 0, detail |-> 0, search |-> 0]
    /\ httpErrors = [list |-> 0, detail |-> 0, search |-> 0]
    /\ abortReason = ""
    /\ llm = <<>>
    /\ messages = <<>>
    /\ program_handle = ""
    /\ program_name = ""
    /\ program_content = <<>>
    /\ program = NoneResponse
    /\ findings = <<>>
    /\ summary = Str(<<>>)
    /\ reportFile = NoFile
    /\ reportWrites = 0
    /\ llmCalls = <<>>
    /\ stagesRun = <<>>
    /\ aliased = FALSE

\* main, line 318: hack_matches = search_programs_via_hacktivity(query, auth)
RunSearch ==
    /\ pc = "search"
    /\ hack_matches' = search_programs_via_hacktivity(feedOutcome)
    /\ http' = Bump(http, "search")
    /\ httpErrors' = BumpIfFailed(httpErrors, "search", feedOutcome)
    /\ pc' = "search_done"
    /\ UNCHANGED <<auth, programs, listings, prompts, lastInput, lastOutput,
                   query, search_result, selected_program, abortReason,
                   pipelineVars, aliased, credVars>>

NextSearch == RunSearch

SpecSearch == InitSearch /\ [][NextSearch]_vars

-----------------------------------------------------------------------------
(* Program Selector properties *)

\* the step is one pass through the main prompt / the match prompt
MainPromptStep  == pc = "AwaitingChoice" /\ prompts' = prompts + 1
MatchPromptStep == pc = "AwaitingSearchChoice" /\ prompts' = prompts + 1

SelectorStates == {"AwaitingChoice", "AwaitingQuery", "AwaitingSearchChoice"}

\* the text parses to an integer in lo..hi
IntIn(text, lo, hi) ==
    IsIntLiteral(text) /\ lo <= IntValue(text) /\ IntValue(text) <= hi

\* C1: at the main prompt of an N-program list, an input that parses to an
\* integer k in 1..N resolves the selection to the k-th program with no
\* search and no detail lookup, and once the selector has ended no further
\* prompt and no search is ever issued.
C1_DirectSelection ==
    [][ /\ (MainPromptStep /\ IntIn(lastInput', 1, Len(programs)))
           => /\ pc' = "Resolved"
              /\ selected_program' = programs[IntValue(lastInput')]
              /\ http' = http
              /\ programs' = programs
        /\ (pc \notin SelectorStates /\ pc # "list")
           => /\ prompts' = prompts
              /\ http'.search = http.search
              /\ selected_program' = selected_program
      ]_vars

\* C1 witness: "2" typed at the first prompt of a 2-program list resolved to
\* the second program and the pipeline start followed with no other prompt.
C1_Witness ==
    /\ pc = "fetch"
    /\ Len(programs) = 2
    /\ lastInput = <<"2">>
    /\ prompts = 1
    /\ selected_program = programs[2]
    /\ programs[1] # programs[2]
    /\ http = [list |-> 1, detail |-> 0, search |-> 0]

\* C2: at the main prompt, an input that is not a number, or a number outside
\* 1..N+1, prints an error and leaves the selector where it was: nothing is
\* resolved, no search or lookup is made, the list is the same and the
\* selector is at the main prompt again.
C2_BadInputReprompts ==
    [][ (MainPromptStep /\ ~IntIn(lastInput', 1, Len(programs) + 1))
        => /\ pc' = "AwaitingChoice"
           /\ lastOutput' = IF IsIntLiteral(lastInput')
                            THEN "Please enter a number between"
                            ELSE "Invalid input"
           /\ UNCHANGED <<programs, listings, selected_program, query,
                          hack_matches, search_result, http>>
      ]_vars

\* C2 witness: a negative number was rejected at the second prompt.
C2_Witness ==
    /\ pc = "AwaitingChoice"
    /\ prompts = 2
    /\ lastInput = <<"-", "1">>
    /\ lastOutput = "Please enter a number between"
    /\ selected_program = Unselected
    /\ http = [list |-> 1, detail |-> 0, search |-> 0]

\* the step is the handle lookup after a search that matched nothing and an
\* empty response, and the lookup did not return a program record
FallbackNotFoundStep ==
    /\ MatchPromptStep
    /\ hack_matches = <<>>
    /\ lastInput' = <<>>
    /\ http'.detail = http.detail + 1
    /\ search_result'.kind # "wrapped"

\* C3 as stated: after the search matched nothing, the response was empty and
\* the handle lookup found nothing, the selector does not resolve, the
\* original programs are listed again and remain as they were.
C3_AsClaimed ==
    [][ FallbackNotFoundStep
        => /\ pc' = "AwaitingChoice"
           /\ selected_program' = selected_program
           /\ programs' = programs
           /\ listings' = listings + 1
      ]_vars

\* C3 amended: after the search matched nothing, the response was empty and
\* the handle lookup found nothing, the selector does not resolve and goes
\* back to the main prompt without printing the list again; the program list
\* is unchanged, and at every main prompt after a failed lookup a number k in
\* 1..N still resolves to the k-th original program, whatever query and
\* matches the loop's variables still hold.
C3_FallbackReturnsToPrompt ==
    [][ /\ FallbackNotFoundStep
           => /\ pc' = "AwaitingChoice"
              /\ lastOutput' = "not found or you don't have access"
              /\ selected_program' = selected_program
              /\ programs' = programs
              /\ listings' = listings
        /\ (MainPromptStep /\ http.detail > 0 /\ IntIn(lastInput', 1, Len(programs)))
           => /\ pc' = "Resolved"
              /\ selected_program' = programs[IntValue(lastInput')]
      ]_vars

\* C3 witness: the selector is back at the main prompt after an empty search,
\* an empty response and a failed lookup; the list was printed once.
C3_Witness ==
    /\ pc = "AwaitingChoice"
    /\ lastOutput = "not found or you don't have access"
    /\ lastInput = <<>>
    /\ query # <<>>
    /\ hack_matches = <<>>
    /\ search_result = NoneResponse
    /\ http = [list |-> 1, detail |-> 1, search |-> 1]
    /\ selected_program = Unselected
    /\ listings = 1

\* C4 as stated: in the search sub-dialog the handle lookup is made only for
\* an empty response.
C4_AsClaimed ==
    [][ (MatchPromptStep /\ http'.detail # http.detail) => lastInput' = <<>> ]_vars

\* C4 amended: in the search sub-dialog over M matches, a digit-only response
\* k in 1..M resolves to the k-th match with no handle lookup; a response of
\* digit characters that int() rejects prints the invalid-input error and
\* returns to the main prompt with no lookup; every other response (empty,
\* not a number, or a number outside 1..M) makes exactly one handle lookup,
\* which resolves to the returned record when the result carries "data" and
\* otherwise prints not-found and returns to the main prompt.
C4_SearchDialog ==
    [][ MatchPromptStep =>
        LET sel == lastInput'
            m   == Len(hack_matches)
        IN  IF IsDigit(sel) /\ IntIn(sel, 1, m)
            THEN /\ pc' = "Resolved"
                 /\ selected_program' = hack_matches[IntValue(sel)]
                 /\ http' = http
            ELSE IF IsDigit(sel) /\ ~IsIntLiteral(sel)
            THEN /\ pc' = "AwaitingChoice"
                 /\ lastOutput' = "Invalid input"
                 /\ selected_program' = selected_program
                 /\ http' = http
            ELSE /\ http' = [http EXCEPT !.detail = @ + 1]
                 /\ IF search_result'.kind = "wrapped"
                    THEN /\ pc' = "Resolved"
                         /\ selected_program' = search_result'.data
                    ELSE /\ pc' = "AwaitingChoice"
                         /\ lastOutput' = "not found or you don't have access"
                         /\ selected_program' = selected_program
      ]_vars

\* C4 witness: a response that is neither empty nor a selection ("a") led to
\* a handle lookup that resolved the selection.
C4_Witness ==
    /\ pc = "Resolved"
    /\ lastInput = <<"a">>
    /\ Len(hack_matches) = 2
    /\ search_result.kind = "wrapped"
    /\ selected_program = search_result.data
    /\ http = [list |-> 1, detail |-> 1, search |-> 1]

-----------------------------------------------------------------------------
(* Pipeline properties *)

Stages    == <<"fetch", "analyze", "extract", "summarize">>
LLMStages == <<"analyze", "extract", "summarize">>

IsPrefix(s, t) == Len(s) <= Len(t) /\ SubSeq(t, 1, Len(s)) = s

\* every llm.invoke of the run succeeded and answered with the text s
AllAnswered(s) == \A i \in 1..Len(llmCalls) : llmCalls[i].ok /\ llmCalls[i].text = s

\* the fetch node stored the formatted content of a program record
FetchSucceeded == program_content # <<>> /\ Head(program_content) = "Program: "

\* C5: when the run ends after a successful fetch and every LLM call answered
\* with the same non-empty text, the four stages ran once each in the order
\* fetch, analyze, extract, summarize, findings has length 2, summary is not
\* empty and the report file holds exactly that text.
C5_EndToEnd ==
    \A s \in LLMTexts :
        (pc = "done" /\ FetchSucceeded /\ s # <<>> /\ AllAnswered(s))
        => /\ stagesRun = Stages
           /\ [i \in 1..Len(llmCalls) |-> llmCalls[i].stage] = LLMStages
           /\ Len(findings) = 2
           /\ summary # Str(<<>>) /\ summary.content # <<>>
           /\ reportFile = File(s)
           /\ reportWrites = 1

\* C5 witness: a finished run whose three LLM calls all answered "r1".
C5_Witness ==
    /\ pc = "done"
    /\ FetchSucceeded
    /\ Len(llmCalls) = 3
    /\ AllAnswered(<<"r1">>)
    /\ reportFile = File(<<"r1">>)

\* the number of analysis nodes (analyze, extract) among the completed nodes
AnalysisDone(run) ==
    Cardinality({i \in 1..Len(run) : run[i] \in {"analyze", "extract"}})

\* C6: after every step, findings is as long as the number of analysis
\* stages completed so far; a step changes findings only by appending one
\* entry in an analysis stage; summary is empty as long as summarize has not
\* completed, and it is written only once, by the summarize stage.
C6_PipelineStateInvariant ==
    [][ /\ Len(findings') = AnalysisDone(stagesRun')
        /\ \/ findings' = findings
           \/ /\ pc \in {"analyze", "extract"}
              /\ Len(findings') = Len(findings) + 1
              /\ IsPrefix(findings, findings')
        /\ "summarize" \notin Range(stagesRun') => summary' = Str(<<>>)
        /\ summary' # summary
           => /\ pc = "summarize"
              /\ summary = Str(<<>>)
              /\ "summarize" \notin Range(stagesRun)
              /\ stagesRun' = Append(stagesRun, "summarize")
      ]_vars

\* C6 witness: a finished run with two different findings and a summary.
C6_Witness ==
    /\ pc = "done"
    /\ Len(findings) = 2
    /\ findings[1] # findings[2]
    /\ summary.type = "ai"
    /\ stagesRun = Stages

\* the lookup of the fetch node gave no program record: it returned nothing,
\* or what it returned made the node raise
FetchFailed(prog) == prog.kind \notin {"flat", "wrapped"}

\* C7: when the lookup of the fetch stage fails, the stage still completes
\* and hands over to analyze: program_content contains "Error:", the error
\* message is appended to the log, and afterwards the run leaves a stage
\* only to the next stage, or by aborting on a failed LLM call.
C7_FetchFailureDegrades ==
    [][ /\ (pc = "fetch" /\ pc' # "fetch")
           => /\ pc' = "analyze"
              /\ stagesRun' = Append(stagesRun, "fetch")
              /\ FetchFailed(program')
                 => /\ "Error: " \in Range(program_content')
                    /\ IsPrefix(messages, messages')
                    /\ Len(messages') > Len(messages)
                    /\ messages'[Len(messages')].type = "ai"
                    /\ Head(messages'[Len(messages')].content)
                         = "Error fetching program: "
        /\ (pc \in {"analyze", "extract", "summarize"} /\ pc' # pc)
           => IF llmCalls'[Len(llmCalls')].ok
              THEN \E i \in 2..4 :
                     /\ pc = Stages[i]
                     /\ pc' = IF i = 4 THEN "done" ELSE Stages[i + 1]
              ELSE pc' = "aborted"
      ]_vars

\* C7 witness: a run whose fetch lookup returned nothing finished all four
\* stages and wrote the report.
C7_Witness ==
    /\ pc = "done"
    /\ program = NoneResponse
    /\ Head(program_content) = "Error: "
    /\ stagesRun = Stages
    /\ reportWrites = 1

\* C8: each LLM stage invokes the LLM at most once; a failed invocation is
\* the last one of the run and aborts it at that stage, with no later stage
\* run and no report written; the report is written only after all three
\* LLM calls succeeded.
C8_LLMFailureAborts ==
    /\ Len(llmCalls) <= 3
    /\ \A i \in 1..Len(llmCalls) :
         /\ llmCalls[i].stage = LLMStages[i]
         /\ ~llmCalls[i].ok
            => /\ i = Len(llmCalls)
               /\ pc = "aborted"
               /\ abortReason = "llm_error"
               /\ stagesRun = SubSeq(Stages, 1, i)
               /\ reportWrites = 0
               /\ reportFile = NoFile
               /\ summary = Str(<<>>)
    /\ reportWrites > 0
       => /\ reportWrites = 1
          /\ Len(llmCalls) = 3
          /\ \A i \in 1..3 : llmCalls[i].ok

\* C8 witness: the run aborted in extract after analyze had succeeded.
C8_Witness ==
    /\ pc = "aborted"
    /\ Len(llmCalls) = 2
    /\ llmCalls[1].ok
    /\ ~llmCalls[2].ok
    /\ Len(findings) = 1
    /\ reportWrites = 0

-----------------------------------------------------------------------------
(* Credential properties *)

NoHttp == [list |-> 0, detail |-> 0, search |-> 0]

\* C9 as stated: a run aborted for a missing platform or LLM credential has
\* made no platform HTTP call and no LLM call.
C9_AsClaimed ==
    (pc = "aborted"
       /\ abortReason \in {"no_platform_credentials", "no_llm_credentials"})
    => (http = NoHttp /\ llmCalls = <<>>)

\* C9 amended: as long as get_hackerone_auth has given no credential pair no
\* HTTP call, prompt or LLM call is made, and its "missing" result aborts
\* the run; as long as get_llm has given no key no LLM call is made, no
\* stage runs and no report is written, and a missing LLM key aborts the
\* run only after the program list was fetched and a program selected.
C9_MissingCredentialsAbort ==
    /\ auth = NoAuth
       => /\ http = NoHttp /\ llmCalls = <<>> /\ prompts = 0
          /\ pc \in {"start", "aborted"}
    /\ abortReason = "no_platform_credentials"
       => pc = "aborted" /\ auth = NoAuth
    /\ llm = <<>>
       => llmCalls = <<>> /\ stagesRun = <<>> /\ reportWrites = 0
    /\ abortReason = "no_llm_credentials"
       => /\ pc = "aborted" /\ llm = <<>>
          /\ http.list = 1
          /\ selected_program # Unselected

\* C9 witness: a run aborted for the missing LLM key after listing the
\* programs and a handle lookup.
C9_Witness ==
    /\ pc = "aborted"
    /\ abortReason = "no_llm_credentials"
    /\ http = [list |-> 1, detail |-> 1, search |-> 1]
    /\ llmCalls = <<>>

\* C10: the trimmed .hackerone content is split on its first colon into
\* (principal, secret); content without a colon gives ("api", content); an
\* empty file or a missing file gives the "missing" signal.
C10_CredentialParsing ==
    pc = "cred_done" =>
        IF ~credFile.is_file \/ Strip(credFile.text) = <<>>
        THEN credResult = NoAuth
        ELSE LET content == Strip(credFile.text)
             IN  IF \E i \in 1..Len(content) : content[i] = ":"
                 THEN /\ Len(credResult) = 2
                      /\ credResult[1] \o <<":">> \o credResult[2] = content
                      /\ ":" \notin Range(credResult[1])
                 ELSE credResult = <<ApiPrincipal, content>>

-----------------------------------------------------------------------------
(* Directory-lookup failure properties *)

\* the step made a request to the endpoint and the request failed
FailedCall(endpoint) == httpErrors'[endpoint] = httpErrors[endpoint] + 1

\* C11 as stated: a failed list, detail or search call never ends the run.
C11_AsClaimed ==
    [][ (\E e \in {"list", "detail", "search"} : FailedCall(e))
        => pc' \notin {"returned", "aborted"}
      ]_vars

\* C11 amended: a failed request of any of the three directory calls raises
\* nothing in the caller and degrades to an empty result.  A failed search
\* gives no matches and the selector goes on to the match prompt; a failed
\* handle lookup gives None, after which the selector prints not-found and
\* returns to the main prompt and the fetch stage hands over to analyze with
\* error content; a failed list call gives the empty list, on which main
\* returns: the run ends normally with no prompt, no LLM call and no report.
C11_LookupFailuresDegrade ==
    [][ /\ (\E e \in {"list", "detail", "search"} : FailedCall(e))
           => pc' # "aborted" /\ abortReason' = abortReason
        /\ FailedCall("search")
           => /\ hack_matches' = <<>>
              /\ pc' = "AwaitingSearchChoice"
        /\ (FailedCall("detail") /\ pc = "AwaitingSearchChoice")
           => /\ search_result' = NoneResponse
              /\ pc' = "AwaitingChoice"
              /\ lastOutput' = "not found or you don't have access"
              /\ selected_program' = selected_program
        /\ (FailedCall("detail") /\ pc = "fetch")
           => /\ program' = NoneResponse
              /\ pc' = "analyze"
              /\ Head(program_content') = "Error: "
        /\ FailedCall("list")
           => /\ programs' = <<>>
              /\ pc' = "returned"
              /\ listings' = 0 /\ prompts' = 0
              /\ llmCalls' = <<>> /\ reportWrites' = 0
        /\ pc = "returned" => pc' = "returned"
      ]_vars

\* C11 witness: a run in which the search and both handle lookups failed
\* reached the analyze stage.
C11_Witness ==
    /\ pc = "analyze"
    /\ httpErrors = [list |-> 0, detail |-> 2, search |-> 1]
    /\ http = [list |-> 1, detail |-> 2, search |-> 1]
    /\ program = NoneResponse

-----------------------------------------------------------------------------
(* Hacktivity search properties *)

\* the handles that occur in the feed items
FeedHandles(items) == {items[i].handle : i \in 1..Len(items)} \ {NoHandle}

\* position of the first item of the feed with handle h
FirstItem(items, h) ==
    CHOOSE i \in 1..Len(items) :
        items[i].handle = h /\ \A j \in 1..(i - 1) : items[j].handle # h

\* C12: the search result holds each distinct non-empty handle of the feed
\* exactly once, in the order of first occurrence; items without a handle
\* leave no record; every record is just the handle and the name of the
\* first item with that handle; a failed request gives the empty sequence.
C12_SearchDeduplicates ==
    pc = "search_done" =>
        IF feedOutcome.kind = "fail" THEN hack_matches = <<>>
        ELSE LET items == feedOutcome.data
             IN  /\ Len(hack_matches) = Cardinality(FeedHandles(items))
                 /\ {hack_matches[j].handle : j \in 1..Len(hack_matches)}
                      = FeedHandles(items)
                 /\ \A j \in 1..Len(hack_matches) :
                      LET h == hack_matches[j].handle
                      IN  /\ DOMAIN hack_matches[j] = {"handle", "name"}
                          /\ hack_matches[j].name = items[FirstItem(items, h)].name
                          /\ \A k \in (j + 1)..Len(hack_matches) :
                               FirstItem(items, h)
                                 < FirstItem(items, hack_matches[k].handle)

\* C12 witness: a feed with a repeated handle under another name and an item
\* without a handle gave one record per handle, in first-occurrence order.
C12_Witness ==
    /\ pc = "search_done"
    /\ feedOutcome.kind = "ok"
    /\ Len(feedOutcome.data) = 3
    /\ feedOutcome.data[1].handle = "h2" /\ feedOutcome.data[1].name = "A"
    /\ feedOutcome.data[2].handle = NoHandle
    /\ feedOutcome.data[3].handle = "h2" /\ feedOutcome.data[3].name = "B"
    /\ hack_matches = <<[handle |-> "h2", name |-> "A"]>>

-----------------------------------------------------------------------------
(* Search-term properties *)

\* the step is one pass through the search-term prompt
QueryPromptStep == pc = "AwaitingQuery" /\ prompts' = prompts + 1

\* the text is empty or holds nothing but whitespace
Blank(text) == \A i \in 1..Len(text) : text[i] \in Whitespace

\* C13: a search term that is empty or only whitespace is rejected: no
\* search and no handle lookup is made, nothing is resolved and the selector
\* is back at the main prompt with the same list; the search is made only
\* for a term that is not blank.
C13_EmptyQueryRejected ==
    [][ QueryPromptStep =>
        IF Blank(query')
        THEN /\ pc' = "AwaitingChoice"
             /\ lastOutput' = "Search term cannot be empty"
             /\ http' = http
             /\ UNCHANGED <<programs, listings, selected_program, hack_matches,
                            search_result>>
        ELSE /\ pc' = "AwaitingSearchChoice"
             /\ http' = [http EXCEPT !.search = @ + 1]
      ]_vars

\* C13 witness: the search option was chosen, a blank term was rejected and
\* the selector is at the main prompt with nothing searched.
C13_Witness ==
    /\ pc = "AwaitingChoice"
    /\ prompts = 2
    /\ lastOutput = "Search term cannot be empty"
    /\ query = <<>>
    /\ programs # <<>>
    /\ selected_program = Unselected
    /\ http = [list |-> 1, detail |-> 0, search |-> 0]

-----------------------------------------------------------------------------
(* Message-log properties *)

\* the step is a pipeline stage running to completion
StageStep == stagesRun' # stagesRun

\* the request main puts in the log before the graph runs, line 357
InitialRequest == HumanMessage(<<"Analyze HackerOne program: ", program_name>>)

\* C14: the message log is append-only: every stage keeps the entries that
\* are there, in order, and adds exactly one entry at the end; after a
\* complete run the log is the initial request followed by four entries, one
\* per stage in stage order (the fetch message, the two findings, the
\* summary), and nothing else.
C14_MessageLogAppendOnly ==
    [][ StageStep =>
        /\ Len(messages') = Len(messages) + 1
        /\ SubSeq(messages', 1, Len(messages)) = messages
        /\ pc' = "done" =>
             /\ Len(messages') = 5
             /\ messages'[1] = InitialRequest
             /\ messages'[2].type = "ai"
             /\ messages'[3] = findings'[1]
             /\ messages'[4] = findings'[2]
             /\ messages'[5] = summary'
      ]_vars

-----------------------------------------------------------------------------
(* Frame and ordering properties *)

\* the graph is at one of its four nodes
AtStage == pc \in Range(Stages)

\* the content the prompts of the given node embedded, one per call
InputsOf(stage) == {llmCalls[i].input : i \in {j \in 1..Len(llmCalls) : llmCalls[j].stage = stage}}

\* C15: no pipeline stage changes program_handle or program_name, only the
\* fetch stage changes program_content, and so the analyze and the extract
\* prompts embed the same content: the one the fetch stage stored.
C15_FrameProperty ==
    [][ /\ AtStage =>
             /\ program_handle' = program_handle
             /\ program_name' = program_name
             /\ pc # "fetch" => program_content' = program_content
        /\ InputsOf("analyze")' \subseteq {program_content'}
        /\ InputsOf("extract")' \subseteq {program_content'}
      ]_vars

\* C15 witness: analyze and extract have both called the model, over the
\* fetched content, and the graph is at summarize.
C15_Witness ==
    /\ pc = "summarize"
    /\ Len(llmCalls) = 2
    /\ llmCalls[1].stage = "analyze" /\ llmCalls[2].stage = "extract"
    /\ llmCalls[1].input = llmCalls[2].input
    /\ program_content # <<>>
    /\ program_handle = selected_program.handle
    /\ program_name = selected_program.name

\* the pipeline has been started: the LLM client exists, a node is due or has
\* run, the model has been called or the report has been written
PipelineStarted ==
    \/ pc \in Range(Stages) \cup {"done"}
    \/ llm # <<>>
    \/ stagesRun # <<>>
    \/ llmCalls # <<>>
    \/ reportWrites > 0
    \/ reportFile # NoFile

\* the step leaves the selection loop
LoopExit == pc \in SelectorStates /\ pc' \notin SelectorStates

\* the three ways the step can have resolved a program: a listed program at
\* the main prompt, a search match at the match prompt, or the "data" record
\* of the handle lookup made in this step
ResolvedListed == pc = "AwaitingChoice" /\ selected_program' \in Range(programs)
ResolvedMatch  == pc = "AwaitingSearchChoice" /\ selected_program' \in Range(hack_matches)
ResolvedDetail ==
    /\ pc = "AwaitingSearchChoice"
    /\ http' = [http EXCEPT !.detail = @ + 1]
    /\ search_result'.kind = "wrapped"
    /\ selected_program' = search_result'.data

\* C16: the pipeline is started, the model called and the report written only
\* after the selector resolved a program, and the handle the pipeline works on
\* is that program's; the selection loop is left only by resolving a listed
\* program, a search match or a found detail record; an empty program list
\* ends the run with no prompt, no model call and no report.
C16_Ordering ==
    [][ /\ PipelineStarted' =>
             /\ selected_program' # Unselected
             /\ program_handle' = selected_program'.handle
        /\ LoopExit =>
             /\ pc' = "Resolved"
             /\ selected_program' # Unselected
             /\ ResolvedListed \/ ResolvedMatch \/ ResolvedDetail
        /\ pc = "list" /\ programs' = <<>> => pc' = "returned"
        /\ pc' = "returned" =>
             /\ prompts' = 0
             /\ ~PipelineStarted'
        /\ pc = "returned" => FALSE
      ]_vars

\* C16 witness: a search match was resolved and the pipeline ran to the end on
\* that program's handle.
C16_Witness ==
    /\ pc = "done"
    /\ reportWrites = 1
    /\ selected_program \in Range(hack_matches)
    /\ selected_program \notin Range(programs)
    /\ program_handle = selected_program.handle

\* C16 witness for the empty list is the state main returns in
C16_EmptyListWitness ==
    /\ pc = "returned"
    /\ programs = <<>>
    /\ prompts = 0

=============================================================================
